---- MODULE Spec2Model ----
(***************************************************************************)
(* State-machine model of YasnoCoordinator                                 *)
(* (custom_components/svitlo/coordinator/yasno.py).                        *)
(*                                                                         *)
(* Time is in whole seconds.  A synchronous property evaluation is one     *)
(* step: every dt_utils.now() it makes reads the same instant `now`.       *)
(* The coordinator runs on one event loop, so a property read can          *)
(* interleave with a refresh only at the refresh's await points; these are *)
(* the values of pc.                                                       *)
(*                                                                         *)
(* YasnoApi (api/yasno.py) is the interval store.  Its operations are      *)
(* modelled from the design document: api_get_group_data, api_get_events,  *)
(* api_get_current_event, and the outcome of fetch_data.                   *)
(***************************************************************************)
EXTENDS Integers, Sequences, FiniteSets, TLC

VARIABLES
    now,                    \* dt_utils.now(), seconds
    update_interval,        \* self.update_interval.total_seconds()
    translations,           \* self.translations
    region_id,              \* self.region_id
    provider_id,            \* self.provider_id
    api_data,               \* the group data held by self.api (None: nothing loaded)
    cached_group_data,      \* self._cached_group_data
    group_data_cache_time,  \* self._group_data_cache_time
    pc,                     \* position of _async_update_data
    pre_data,               \* api_data when the refresh in progress began
    load_unread,            \* a load completed and no group-data read followed yet
    last,                   \* the last read: what it returned, whether it queried
    api_client,             \* self.api: which YasnoApi object it holds, 0 or 1
    cached_provider_name,   \* self._provider_name
    resolved_at_start,      \* both ids were resolved when the refresh in progress began
                            \* the store, whether it came less than the cache
                            \* duration after the cache time, whether it was the
                            \* first group-data read after a load; or how the
                            \* refresh that just finished ended
    delta,                  \* argument of _format_time_delta (formatter runs)
    formatted               \* its result (formatter runs)

vars == <<now, update_interval, translations, region_id, provider_id, api_data,
          cached_group_data, group_data_cache_time, pc, pre_data,
          load_unread, last, api_client, cached_provider_name,
          resolved_at_start, delta, formatted>>

-----------------------------------------------------------------------------
(* Values *)

\* Python None, for every value that is an object
None == [none |-> TRUE]

\* Python None, for an instant
NoTime == -1

\* an int result
PyInt(n) == [int |-> n]

\* a str result
PyStr(s) == [str |-> s]

\* a datetime result, in seconds on the model's clock
PyTime(t) == [time |-> t]

\* a calendar date, counted in days on the model's clock
PyDate(d) == [date |-> d]

TIMEFRAME_TO_CHECK == 86400

\* self.provider, the configured provider name
provider == "PrAT DTEK Kyiv Electric Networks"

PROVIDER_DTEK_SHORT == "DTEK"

\* the names whose upper case contains PROVIDER_DTEK_FULL
DtekNames == {provider}

simplify_provider_name(provider_name) ==
    IF provider_name \in DtekNames THEN PROVIDER_DTEK_SHORT ELSE provider_name

MAX_CACHE_SECONDS == 60

SECONDS_PER_MINUTE == 60

SECONDS_PER_HOUR == 3600

SECONDS_PER_DAY == 86400

DEFINITE == "Definite"

EMERGENCY == "Emergency"

\* an event type that is neither DEFINITE nor EMERGENCY
UNKNOWN_TYPE == "NotPlanned"

STATE_NORMAL == "STATE_NORMAL"

STATE_PLANNED_OUTAGE == "STATE_PLANNED_OUTAGE"

STATE_EMERGENCY == "STATE_EMERGENCY"

TRANSLATION_KEY_TIME_LESS_THAN_MINUTE == "time_less_than_minute"

-----------------------------------------------------------------------------
(* Bounds *)

\* the most events one published schedule holds
MaxEvents == 2

\* the instants the clock is observed at
Clock == {0, 20, 60, 80, 100}

\* the instants at which published events start and end
EventGrid == {60, 100, 86400, 90000}

EventTypes == {DEFINITE, EMERGENCY, UNKNOWN_TYPE}

\* the most day entries in a group snapshot
MaxDays == 2

\* the calendar dates of day entries: the clock's day and the day after
DayDates == {0, 1}

\* the "status" of a day entry; None for an entry without the key
DayStatuses == {PyStr("ScheduleApplies"), PyStr("EmergencyShutdowns"), None}

\* configured refresh intervals, in seconds (1 minute and 15 minutes)
UpdateIntervals == {60, 900}

\* arguments of the formatter runs, in seconds
DeltaInputs == (-2 .. 125) \cup {3599, 3600, 3660, 7199, 7200, 86399, 86400, 86459,
                                 86460, 90000, 91800, 172800, 176400, 176460}

-----------------------------------------------------------------------------
(* Published schedules: PlannedOutageEvent(start, end, event_type), end > start, *)
(* no two events of one schedule overlapping                                     *)

AllEvents ==
    {e \in [start : EventGrid, end : EventGrid, event_type : EventTypes] :
        e.end > e.start}

Disjoint(e, f) == e.end <= f.start \/ f.end <= e.start

RECURSIVE Schedules(_)
Schedules(n) ==
    IF n = 0 THEN {{}}
    ELSE LET prev == Schedules(n - 1)
         IN prev \cup
            UNION {{s \cup {e} : e \in {x \in AllEvents : \A f \in s : Disjoint(x, f)}} :
                   s \in prev}

\* the group data of one fetch
Snapshots == {[events |-> s] : s \in Schedules(MaxEvents)}

\* a day entry of the group data; date is None where the entry has no "date"
\* or one that does not parse
DayEntries ==
    [date : {None} \cup {PyDate(d) : d \in DayDates}, status : DayStatuses]

\* the day entries of a snapshot: at most one for a calendar date
DayShapes ==
    {days \in SUBSET DayEntries :
        /\ Cardinality(days) <= MaxDays
        /\ \A a, b \in days : a.date = b.date /\ a.date /= None => a = b}

\* snapshots with their day entries
DaySnapshots ==
    {[events |-> s, days |-> days] : s \in Schedules(MaxEvents), days \in DayShapes}

NoTranslations == [k \in {} |-> ""]

LocalTranslations ==
    [k \in {TRANSLATION_KEY_TIME_LESS_THAN_MINUTE} |-> "localized less than a minute"]

-----------------------------------------------------------------------------
(* YasnoApi: the interval store *)

\* self.api._get_group_data(): the loaded group data, None when nothing is loaded
api_get_group_data == api_data

\* self.api.get_events(start_date, end_date): the events whose [start, end)
\* intersects the window; none when nothing is loaded
api_get_events(start_date, end_date) ==
    IF api_data = None THEN {}
    ELSE {e \in api_data.events : e.start < end_date /\ e.end > start_date}

\* self.api.get_current_event(at): the event whose [start, end) contains `at`,
\* the earliest-starting one if several do
api_get_current_event(at) ==
    LET covering == IF api_data = None THEN {}
                    ELSE {e \in api_data.events : e.start <= at /\ at < e.end}
    IN IF covering = {} THEN None
       ELSE CHOOSE e \in covering : \A f \in covering : e.start <= f.start

-----------------------------------------------------------------------------
(* YasnoCoordinator: events *)

\* CalendarEvent(start, end, uid = event_type.value)
get_calendar_event(event) ==
    IF event = None THEN None
    ELSE [start |-> event.start, end |-> event.end, uid |-> event.event_type]

get_event_at(at) == get_calendar_event(api_get_current_event(at))

get_current_event == get_event_at(now)

get_events_between(start_date, end_date) ==
    {get_calendar_event(e) : e \in api_get_events(start_date, end_date)}

\* _event_to_state taking an emergency for a planned outage
event_to_state_one_outage(event) ==
    IF event = None THEN STATE_NORMAL
    ELSE IF event.uid \in {DEFINITE, EMERGENCY} THEN STATE_PLANNED_OUTAGE
    ELSE STATE_NORMAL

event_to_state(event) ==
    IF event = None THEN STATE_NORMAL
    ELSE IF event.uid = DEFINITE THEN STATE_PLANNED_OUTAGE
    ELSE IF event.uid = EMERGENCY THEN STATE_EMERGENCY
    ELSE STATE_NORMAL

\* the events left in an order of the store's, the latest first
RECURSIVE latest_first(_)
latest_first(events) ==
    IF events = {} THEN <<>>
    ELSE LET first == CHOOSE e \in events : \A f \in events : e.start >= f.start
         IN <<first>> \o latest_first(events \ {first})

\* sorted(events, key=lambda _: _.start)
RECURSIVE sorted_by_start(_)
sorted_by_start(events) ==
    IF events = {} THEN <<>>
    ELSE LET first == CHOOSE e \in events : \A f \in events : e.start <= f.start
         IN <<first>> \o sorted_by_start(events \ {first})

\* the loop accepting an event that starts at `at`
RECURSIVE first_match_from(_, _, _)
first_match_from(seq, state_type, at) ==
    IF seq = <<>> THEN None
    ELSE IF event_to_state(Head(seq)) = state_type /\ Head(seq).start >= at
         THEN Head(seq)
         ELSE first_match_from(Tail(seq), state_type, at)

\* the first event of `seq` the loop of _get_next_event_of_type accepts
RECURSIVE first_match(_, _, _)
first_match(seq, state_type, at) ==
    IF seq = <<>> THEN None
    ELSE IF event_to_state(Head(seq)) = state_type /\ Head(seq).start > at
         THEN Head(seq)
         ELSE first_match(Tail(seq), state_type, at)

get_next_event_of_type(state_type) ==
    first_match(sorted_by_start(get_events_between(now, now + TIMEFRAME_TO_CHECK)),
                state_type, now)

-----------------------------------------------------------------------------
(* YasnoCoordinator: the group-data cache *)

Min(a, b) == IF a <= b THEN a ELSE b

\* min(60, self.update_interval.total_seconds() / 2)
cache_duration == Min(MAX_CACHE_SECONDS, update_interval \div 2)

\* the condition under which _get_group_data_or_none returns the cached value
cache_is_fresh ==
    /\ cached_group_data /= None
    /\ group_data_cache_time /= NoTime
    /\ now - group_data_cache_time < cache_duration

\* what _get_group_data_or_none returns
get_group_data_or_none ==
    IF cache_is_fresh THEN cached_group_data ELSE api_get_group_data

\* what _get_group_data_or_none leaves in the two cache fields
cache_after_get ==
    IF cache_is_fresh THEN <<cached_group_data, group_data_cache_time>>
    ELSE <<api_get_group_data, now>>

\* Python truth value of a group-data result
Truthy(group_data) == group_data /= None

has_outages_planned ==
    IF ~Truthy(get_group_data_or_none) THEN FALSE
    ELSE get_next_event_of_type(STATE_PLANNED_OUTAGE) /= None

-----------------------------------------------------------------------------
(* YasnoCoordinator: countdown formatting *)

\* a str made of space-separated components
Text(parts) == [text |-> parts]

\* the component f"{n}{unit}"
Part(n, unit) == [n |-> n, unit |-> unit]

\* the component that is a whole phrase
Phrase(s) == [phrase |-> s]

\* int(x / y) for y > 0: the quotient rounded toward zero
IntDiv(x, y) == IF x >= 0 THEN x \div y ELSE -((-x) \div y)

get_localized_less_than_minute ==
    IF TRANSLATION_KEY_TIME_LESS_THAN_MINUTE \in DOMAIN translations
    THEN Text(<<Phrase(translations[TRANSLATION_KEY_TIME_LESS_THAN_MINUTE])>>)
    ELSE Text(<<Phrase("less than a minute")>>)

\* _is_time_delta_positive letting a zero delta pass
is_time_delta_not_negative(d) == d >= 0

is_time_delta_positive(d) == d > 0

\* _format_time_delta leaving the hours out when they are zero
format_time_delta_without_zero_hours(d) ==
    IF d <= 0 THEN get_localized_less_than_minute
    ELSE LET total_seconds == d
             days == total_seconds \div SECONDS_PER_DAY
             remaining_seconds == total_seconds % SECONDS_PER_DAY
             hours == remaining_seconds \div SECONDS_PER_HOUR
             minutes == (remaining_seconds % SECONDS_PER_HOUR) \div SECONDS_PER_MINUTE
             day_parts == IF days > 0 THEN <<Part(days, "d")>> ELSE <<>>
             hour_parts == IF hours > 0 THEN <<Part(hours, "h")>> ELSE <<>>
             minute_parts ==
                 IF minutes > 0 \/ (days = 0 /\ hours = 0) THEN <<Part(minutes, "m")>>
                 ELSE <<>>
             parts == day_parts \o hour_parts \o minute_parts
         IN IF parts /= <<>> THEN Text(parts) ELSE get_localized_less_than_minute

format_time_delta(d) ==
    IF d <= 0 THEN get_localized_less_than_minute
    ELSE LET total_seconds == d
             days == total_seconds \div SECONDS_PER_DAY
             remaining_seconds == total_seconds % SECONDS_PER_DAY
             hours == remaining_seconds \div SECONDS_PER_HOUR
             minutes == (remaining_seconds % SECONDS_PER_HOUR) \div SECONDS_PER_MINUTE
             day_hour_parts ==
                 IF days > 0 THEN <<Part(days, "d"), Part(hours, "h")>>
                 ELSE IF hours > 0 THEN <<Part(hours, "h")>>
                 ELSE <<>>
             minute_parts ==
                 IF minutes > 0 \/ (days = 0 /\ hours = 0) THEN <<Part(minutes, "m")>>
                 ELSE <<>>
             parts == day_hour_parts \o minute_parts
         IN IF parts /= <<>> THEN Text(parts) ELSE get_localized_less_than_minute

\* the closing lines of time_until_connectivity and time_until_outage: the
\* clock is read at `at` and the countdown to `target` is returned
countdown_to(target, at) ==
    LET delta_ == target - at
    IN IF ~is_time_delta_positive(delta_) THEN None
       ELSE format_time_delta(delta_)

-----------------------------------------------------------------------------
(* YasnoCoordinator: the facts *)

\* next_planned_outage_duration answering None where it answers 0
next_planned_outage_duration_none_for_zero ==
    IF ~Truthy(get_group_data_or_none) THEN None
    ELSE IF ~has_outages_planned THEN None
    ELSE LET event == get_next_event_of_type(STATE_PLANNED_OUTAGE)
         IN IF event /= None
            THEN PyInt(IntDiv(event.end - event.start, SECONDS_PER_MINUTE))
            ELSE None

next_planned_outage_duration ==
    IF ~Truthy(get_group_data_or_none) THEN None
    ELSE IF ~has_outages_planned THEN PyInt(0)
    ELSE LET event == get_next_event_of_type(STATE_PLANNED_OUTAGE)
         IN IF event /= None
            THEN PyInt(IntDiv(event.end - event.start, SECONDS_PER_MINUTE))
            ELSE None

time_until_connectivity ==
    IF ~has_outages_planned THEN None
    ELSE LET current_event == get_current_event
             current_state_ == event_to_state(current_event)
             next_outage == get_next_event_of_type(STATE_PLANNED_OUTAGE)
             connectivity_time ==
                 IF current_state_ = STATE_PLANNED_OUTAGE
                 THEN (IF current_event /= None THEN current_event.end ELSE NoTime)
                 ELSE (IF next_outage /= None THEN next_outage.end ELSE NoTime)
         IN IF connectivity_time = NoTime THEN None
            ELSE countdown_to(connectivity_time, now)

time_until_outage ==
    IF ~has_outages_planned THEN None
    ELSE LET current_state_ == event_to_state(get_current_event)
             next_outage == get_next_event_of_type(STATE_PLANNED_OUTAGE)
         IN IF current_state_ = STATE_PLANNED_OUTAGE THEN None
            ELSE IF next_outage = None THEN None
            ELSE countdown_to(next_outage.start, now)

current_state == PyStr(event_to_state(get_current_event))

\* now.date()
date_of(t) == IntDiv(t, SECONDS_PER_DAY)

\* current_day_status without the look at the current event
current_day_status_entries_only ==
    LET group_data == get_group_data_or_none
    IN IF ~Truthy(group_data) THEN None
       ELSE LET todays == {d \in group_data.days : d.date = PyDate(date_of(now))}
            IN IF todays /= {} THEN (CHOOSE d \in todays : TRUE).status
               ELSE None

current_day_status ==
    LET group_data == get_group_data_or_none
    IN IF ~Truthy(group_data) THEN None
       ELSE LET todays == {d \in group_data.days : d.date = PyDate(date_of(now))}
                current_event == get_current_event
            IN IF todays /= {} THEN (CHOOSE d \in todays : TRUE).status
               ELSE IF current_event /= None
                       /\ event_to_state(current_event) /= STATE_NORMAL
                    THEN PyStr("EmergencyShutdowns")
               ELSE None

next_planned_outage ==
    IF ~has_outages_planned THEN None
    ELSE LET event == get_next_event_of_type(STATE_PLANNED_OUTAGE)
         IN IF event /= None THEN PyTime(event.start) ELSE None

\* next_outage_type answering "NotPlanned" with no group data loaded
next_outage_type_without_data_check ==
    LET event == get_next_event_of_type(STATE_PLANNED_OUTAGE)
    IN IF event /= None THEN PyStr(event.uid) ELSE PyStr("NotPlanned")

next_outage_type ==
    IF ~Truthy(get_group_data_or_none) THEN None
    ELSE LET event == get_next_event_of_type(STATE_PLANNED_OUTAGE)
         IN IF event /= None THEN PyStr(event.uid) ELSE PyStr("NotPlanned")

next_connectivity ==
    LET current_event == get_current_event
        current_state_ == event_to_state(current_event)
        event == get_next_event_of_type(STATE_PLANNED_OUTAGE)
    IN IF current_state_ = STATE_PLANNED_OUTAGE
       THEN (IF current_event /= None THEN PyTime(current_event.end) ELSE None)
       ELSE (IF event /= None THEN PyTime(event.end) ELSE None)

\* the properties and methods read in the model
Facts == {"get_group_data_or_none", "next_planned_outage_duration",
          "time_until_connectivity", "time_until_outage", "current_state",
          "next_outage_type", "next_connectivity"}

\* the reads that go through _get_group_data_or_none
CachingFacts ==
    (Facts \cup {"current_day_status"}) \ {"current_state", "next_connectivity"}

FactValue(f) ==
    CASE f = "get_group_data_or_none" -> get_group_data_or_none
      [] f = "next_planned_outage_duration" -> next_planned_outage_duration
      [] f = "time_until_connectivity" -> time_until_connectivity
      [] f = "time_until_outage" -> time_until_outage
      [] f = "current_state" -> current_state
      [] f = "next_outage_type" -> next_outage_type
      [] f = "next_connectivity" -> next_connectivity
      [] f = "current_day_status" -> current_day_status

NoRead ==
    [fact |-> "none", val |-> None, queried |-> FALSE, within |-> FALSE,
     after_load |-> FALSE]

\* the mark a refresh leaves in `last` when it ends
Finished(how) ==
    [fact |-> how, val |-> None, queried |-> FALSE, within |-> FALSE,
     after_load |-> FALSE]

-----------------------------------------------------------------------------
(* Actions *)

Init ==
    /\ now = 0
    /\ update_interval \in UpdateIntervals
    /\ translations = NoTranslations
    /\ region_id = None
    /\ provider_id = None
    /\ api_data = None
    /\ cached_group_data = None
    /\ group_data_cache_time = NoTime
    /\ pc = "idle"
    /\ pre_data = None
    /\ load_unread = FALSE
    /\ last = NoRead
    /\ api_client = 0
    /\ cached_provider_name = ""
    /\ resolved_at_start = FALSE
    /\ delta = 0
    /\ formatted = None

\* the clock moves on
Tick ==
    /\ \E t \in Clock : t > now /\ now' = t
    /\ last' = NoRead
    /\ UNCHANGED <<update_interval, translations, region_id, provider_id, api_data,
                   cached_group_data, group_data_cache_time, pc, pre_data,
                   load_unread, delta, formatted,
                   api_client, cached_provider_name, resolved_at_start>>

\* a property (or _get_group_data_or_none itself) is evaluated
Read(f) ==
    /\ last' = [fact |-> f, val |-> FactValue(f),
                queried |-> (f \in CachingFacts /\ ~cache_is_fresh),
                within |-> (group_data_cache_time /= NoTime
                            /\ now - group_data_cache_time < cache_duration),
                after_load |-> (f \in CachingFacts /\ load_unread)]
    /\ IF f \in CachingFacts
       THEN /\ cached_group_data' = cache_after_get[1]
            /\ group_data_cache_time' = cache_after_get[2]
            /\ load_unread' = FALSE
       ELSE UNCHANGED <<cached_group_data, group_data_cache_time, load_unread>>
    /\ UNCHANGED <<now, update_interval, translations, region_id, provider_id, api_data,
                   pc, pre_data, delta, formatted,
                   api_client, cached_provider_name, resolved_at_start>>

\* provider_name is read; with no name cached the lookup in the regions the
\* API client holds finds the configured provider or does not
ReadProviderName(found) ==
    /\ cached_provider_name' =
           IF cached_provider_name /= "" THEN cached_provider_name
           ELSE IF found THEN provider
           ELSE ""
    /\ last' = [fact |-> "provider_name",
                val |-> PyStr(IF cached_provider_name' /= ""
                              THEN simplify_provider_name(cached_provider_name')
                              ELSE ""),
                queried |-> FALSE, within |-> FALSE, after_load |-> FALSE]
    /\ UNCHANGED <<now, update_interval, translations, region_id, provider_id, api_data,
                   cached_group_data, group_data_cache_time, pc, pre_data,
                   load_unread, delta, formatted, api_client, resolved_at_start>>

\* the ids resolved, and the API client constructed anew, on every refresh
always_resolve == TRUE

\* the ids resolved anew also while the API client holds no group data
needs_resolve_or_load == region_id = None \/ provider_id = None \/ api_data = None

\* self.region_id is None or self.provider_id is None
needs_resolve == region_id = None \/ provider_id = None

\* a refresh that leaves the cache as it is
kept_cache == <<cached_group_data, group_data_cache_time>>

\* the cache fields as _async_update_data and _invalidate_group_data_cache leave them
invalidated_cache == <<None, NoTime>>

\* the group data of a newly constructed YasnoApi
new_api_data == None

\* YasnoApi(...): an object that is not the one self.api held
new_client(held) == 1 - held

\* the API client was constructed with a region id and a provider id; without
\* them fetch_data has no schedule to load
api_has_ids == region_id /= None /\ provider_id /= None

\* the outcomes of the name lookups of _resolve_ids
Resolutions == {"no region", "no provider", "resolved"}

\* _async_update_data is entered and awaits async_get_translations
RefreshStart ==
    /\ pc = "idle"
    /\ pc' = "translations"
    /\ pre_data' = api_data
    /\ resolved_at_start' = (region_id /= None /\ provider_id /= None)
    /\ last' = NoRead
    /\ UNCHANGED <<now, update_interval, translations, region_id, provider_id, api_data,
                   cached_group_data, group_data_cache_time, load_unread,
                   delta, formatted, api_client, cached_provider_name>>

\* async_get_translations returns; the refresh runs on to its next await
TranslationsDone ==
    /\ pc = "translations"
    /\ translations' \in {NoTranslations, LocalTranslations}
    /\ pc' = IF needs_resolve THEN "regions" ELSE "fetch"
    /\ last' = NoRead
    /\ UNCHANGED <<now, update_interval, region_id, provider_id, api_data,
                   cached_group_data, group_data_cache_time, pre_data,
                   load_unread, delta, formatted,
                   api_client, cached_provider_name, resolved_at_start>>

\* fetch_yasno_regions returns; the names are looked up, the API client is
\* constructed anew and the refresh awaits fetch_data
ResolveDone(r) ==
    /\ pc = "regions"
    /\ region_id' = IF r = "no region" THEN region_id ELSE PyInt(1)
    /\ provider_id' = IF r = "resolved" THEN PyInt(1) ELSE provider_id
    /\ cached_provider_name' = IF r = "resolved" THEN provider ELSE cached_provider_name
    /\ api_client' = new_client(api_client)
    /\ api_data' = new_api_data
    /\ pc' = "fetch"
    /\ last' = NoRead
    /\ UNCHANGED <<now, update_interval, translations, cached_group_data,
                   group_data_cache_time, pre_data, load_unread, delta,
                   formatted, resolved_at_start>>

\* fetch_data returns with the group data loaded; the cache is invalidated
FetchDone(s) ==
    /\ pc = "fetch"
    /\ api_has_ids
    /\ api_data' = s
    /\ cached_group_data' = invalidated_cache[1]
    /\ group_data_cache_time' = invalidated_cache[2]
    /\ pc' = "idle"
    /\ pre_data' = s
    /\ load_unread' = TRUE
    /\ resolved_at_start' = FALSE
    /\ last' = Finished("refresh_loaded")
    /\ UNCHANGED <<now, update_interval, translations, region_id, provider_id, delta,
                   formatted, api_client, cached_provider_name>>

\* a failing refresh that invalidates the cache on its way out
RefreshFailInvalidating ==
    /\ pc \in {"translations", "regions", "fetch"}
    /\ pc' = "idle"
    /\ cached_group_data' = None
    /\ group_data_cache_time' = NoTime
    /\ resolved_at_start' = FALSE
    /\ last' = Finished("refresh_failed")
    /\ UNCHANGED <<now, update_interval, translations, region_id, provider_id, api_data,
                   pre_data, load_unread, delta, formatted,
                   api_client, cached_provider_name>>

\* the awaited call raises: the exception leaves _async_update_data
RefreshFail ==
    /\ pc \in {"translations", "regions", "fetch"}
    /\ pc' = "idle"
    /\ resolved_at_start' = FALSE
    /\ last' = Finished("refresh_failed")
    /\ UNCHANGED <<now, update_interval, translations, region_id, provider_id, api_data,
                   cached_group_data, group_data_cache_time, pre_data, load_unread,
                   delta, formatted, api_client, cached_provider_name>>

Next ==
    \/ Tick
    \/ \E f \in Facts : Read(f)
    \/ \E found \in BOOLEAN : ReadProviderName(found)
    \/ RefreshStart
    \/ TranslationsDone
    \/ \E r \in Resolutions : ResolveDone(r)
    \/ \E s \in Snapshots : FetchDone(s)
    \/ RefreshFail

Spec == Init /\ [][Next]_vars

-----------------------------------------------------------------------------
(* Formatter runs: _format_time_delta applied to one argument *)

InitFormat ==
    /\ now = 0
    /\ update_interval = 60
    /\ translations \in {NoTranslations, LocalTranslations}
    /\ region_id = None
    /\ provider_id = None
    /\ api_data = None
    /\ cached_group_data = None
    /\ group_data_cache_time = NoTime
    /\ pc = "idle"
    /\ pre_data = None
    /\ load_unread = FALSE
    /\ last = NoRead
    /\ api_client = 0
    /\ cached_provider_name = ""
    /\ resolved_at_start = FALSE
    /\ delta \in DeltaInputs
    /\ formatted = None

\* the closing lines of a time_until_* property run with the target at
\* now + delta
Countdown ==
    /\ last = NoRead
    /\ last' = [fact |-> "countdown_to", val |-> countdown_to(now + delta, now),
                queried |-> FALSE, within |-> FALSE, after_load |-> FALSE]
    /\ UNCHANGED <<now, update_interval, translations, region_id, provider_id, api_data,
                   cached_group_data, group_data_cache_time, pc, pre_data,
                   load_unread, delta, formatted,
                   api_client, cached_provider_name, resolved_at_start>>

Format ==
    /\ formatted = None
    /\ formatted' = format_time_delta(delta)
    /\ UNCHANGED <<now, update_interval, translations, region_id, provider_id, api_data,
                   cached_group_data, group_data_cache_time, pc, pre_data,
                   load_unread, last, delta,
                   api_client, cached_provider_name, resolved_at_start>>

NextFormat ==
    \/ Format
    \/ Countdown

SpecFormat == InitFormat /\ [][NextFormat]_vars

-----------------------------------------------------------------------------
(* Day status runs: current_day_status read over snapshots with day entries *)

InitDays ==
    /\ now = 0
    /\ update_interval = 60
    /\ translations = NoTranslations
    /\ region_id = PyInt(1)
    /\ provider_id = PyInt(1)
    /\ api_data \in DaySnapshots \cup {None}
    /\ cached_group_data = None
    /\ group_data_cache_time = NoTime
    /\ pc = "idle"
    /\ pre_data = api_data
    /\ load_unread = (api_data /= None)
    /\ last = NoRead
    /\ api_client = 1
    /\ cached_provider_name = provider
    /\ resolved_at_start = FALSE
    /\ delta = 0
    /\ formatted = None

NextDays ==
    \/ Tick
    \/ Read("current_day_status")

SpecDays == InitDays /\ [][NextDays]_vars

-----------------------------------------------------------------------------
(* What the claims speak of, stated on the store and the clock *)

\* a group snapshot is loaded in the store
Loaded == api_data /= None

StoreEvents == IF Loaded THEN api_data.events ELSE {}

\* the events of type k that start strictly after now and within 24 hours of it
Upcoming(k) ==
    {e \in StoreEvents :
        e.event_type = k /\ e.start > now /\ e.start < now + TIMEFRAME_TO_CHECK}

\* the earliest of them
NextOf(k) == CHOOSE e \in Upcoming(k) : \A f \in Upcoming(k) : e.start <= f.start

\* the events that contain the instant t
Covering(t) == {e \in StoreEvents : e.start <= t /\ t < e.end}

HasRead(f) == last.fact = f

-----------------------------------------------------------------------------
(* C1 *)

-----------------------------------------------------------------------------
(* C2 *)

\* C2: for every positive duration shorter than one minute _format_time_delta
\* returns the "less than a minute" phrase, never a zero-minute string.
C2_UnderAMinuteIsPhrase ==
    (formatted /= None /\ delta > 0 /\ delta < SECONDS_PER_MINUTE) =>
        /\ formatted = get_localized_less_than_minute
        /\ formatted /= Text(<<Part(0, "m")>>)

-----------------------------------------------------------------------------
(* C3 *)

ConnectivityStates == {STATE_NORMAL, STATE_PLANNED_OUTAGE, STATE_EMERGENCY}

\* C3: an event E with E.start <= T < E.end is the event get_event_at(T)
\* returns, and at now = T the search for the next event of any type,
\* E's own included, does not return E: it returns None or an event that
\* starts strictly after T.
C3_CurrentIsNotNext ==
    /\ \A t \in Clock \cup EventGrid : \A e \in Covering(t) :
          get_event_at(t) = get_calendar_event(e)
    /\ \A e \in Covering(now) : \A st \in ConnectivityStates :
          LET next_event == get_next_event_of_type(st)
          IN /\ next_event /= get_calendar_event(e)
             /\ (next_event = None \/ next_event.start > now)

\* now is the start of a planned outage, and a later planned outage is its next
C3_Witness ==
    /\ \E e \in Covering(now) : e.start = now /\ e.event_type = DEFINITE
    /\ get_current_event /= None
    /\ get_next_event_of_type(STATE_PLANNED_OUTAGE) /= None
    /\ get_next_event_of_type(STATE_PLANNED_OUTAGE).start > now

-----------------------------------------------------------------------------
(* C4 *)

\* C4: a _get_group_data_or_none call made less than the cache duration
\* min(60 s, update_interval / 2) after the cache time, with no refresh in
\* between, does not query the store and returns the cached value, whatever
\* that value is; a call made at or after the cache duration queries the
\* store and stamps the cache time.
C4_WithinTtlNoQuery ==
    HasRead("get_group_data_or_none") =>
        /\ cache_duration = Min(MAX_CACHE_SECONDS, update_interval \div 2)
        /\ (last.within => ~last.queried)
        /\ (~last.within => last.queried /\ group_data_cache_time = now)
        /\ last.val = cached_group_data

-----------------------------------------------------------------------------
(* C5 *)

\* C5: when a refresh fails, at the translation fetch, the id resolution or
\* the schedule fetch, the store holds the snapshot it held when the refresh
\* began, the failing step leaves the group-data cache as it was, and the
\* group data a read obtains is that snapshot's.
C5_FailureKeepsSnapshot ==
    /\ [](HasRead("refresh_failed") =>
            /\ api_data = pre_data
            /\ get_group_data_or_none = pre_data)
    /\ [][last'.fact = "refresh_failed" =>
            /\ cached_group_data' = cached_group_data
            /\ group_data_cache_time' = group_data_cache_time
            /\ api_data' = pre_data]_vars

\* a refresh has failed with a snapshot loaded and held in the cache
C5_Witness ==
    /\ HasRead("refresh_failed")
    /\ Loaded
    /\ api_data.events /= {}
    /\ cached_group_data = api_data

-----------------------------------------------------------------------------
(* C6 *)

\* C6: at every await point of a refresh, and between refreshes, the group
\* data a read obtains, from the cache or from the store, is the group data
\* of the store its events come from; while a refresh is in progress that
\* store holds the snapshot it held when the refresh began.
C6_ReadsSeeOneSnapshot ==
    /\ get_group_data_or_none = api_get_group_data
    /\ (cached_group_data /= None => cached_group_data = api_data)
    /\ (pc /= "idle" => api_data = pre_data)
    /\ (last.fact \in CachingFacts => cached_group_data = api_data)

\* a read during the schedule fetch, answered from the cache
C6_Witness ==
    /\ pc = "fetch"
    /\ HasRead("next_planned_outage_duration")
    /\ ~last.queried
    /\ Loaded
    /\ api_data.events /= {}

-----------------------------------------------------------------------------
(* C7 *)

\* the state of the event that contains now
StateNow == event_to_state(get_current_event)

\* C7: in a planned outage time_until_connectivity is the countdown to the end
\* of the current event, whether or not a further planned outage follows
\* within 24h; otherwise it is the countdown to the end of the next planned
\* outage; it is None only when that end is absent or not after now.
C7_TimeUntilConnectivity ==
    HasRead("time_until_connectivity") =>
        LET planned_now == {e \in Covering(now) : e.event_type = DEFINITE}
            target == IF planned_now /= {}
                      THEN (CHOOSE e \in planned_now : TRUE).end
                      ELSE IF Upcoming(DEFINITE) /= {} THEN NextOf(DEFINITE).end
                      ELSE NoTime
        IN IF target = NoTime \/ target - now <= 0
           THEN last.val = None
           ELSE last.val = format_time_delta(target - now)

-----------------------------------------------------------------------------
(* C8 *)

\* C8: time_until_outage is None while now lies inside a planned or an
\* emergency outage; otherwise it is the countdown to the start of the next
\* planned outage, None when there is none or its start is not after now.
C8_TimeUntilOutage ==
    HasRead("time_until_outage") =>
        LET in_outage == \E e \in Covering(now) : e.event_type \in {DEFINITE, EMERGENCY}
        IN IF in_outage \/ Upcoming(DEFINITE) = {}
              \/ NextOf(DEFINITE).start - now <= 0
           THEN last.val = None
           ELSE last.val = format_time_delta(NextOf(DEFINITE).start - now)

-----------------------------------------------------------------------------
(* C9 *)

\* C9: after a refresh has loaded a snapshot the cache is empty, and the first
\* _get_group_data_or_none call that follows queries the store, returns the
\* group data of the new snapshot and caches it, however soon after the
\* previous cache fill it comes.
C9_InvalidateOnLoad ==
    /\ (load_unread => cached_group_data = None /\ group_data_cache_time = NoTime)
    /\ (HasRead("refresh_loaded") => cached_group_data = None)
    /\ (last.after_load =>
           /\ last.queried
           /\ cached_group_data = api_data
           /\ group_data_cache_time = now
           /\ (HasRead("get_group_data_or_none") => last.val = api_data))

\* the first group-data read after a load has returned the new snapshot
C9_Witness ==
    /\ HasRead("get_group_data_or_none")
    /\ last.after_load
    /\ last.within = FALSE
    /\ last.val = api_data
    /\ api_data.events /= {}

-----------------------------------------------------------------------------
(* C10 *)

\* C10: current_state is PLANNED_OUTAGE at an instant inside a planned
\* (Definite) event, EMERGENCY inside an emergency event, and NORMAL at an
\* instant no event covers, no snapshot loaded included, and inside an event
\* of any other type.
C10_StateMapping ==
    HasRead("current_state") =>
        /\ last.val \in {PyStr(st) : st \in ConnectivityStates}
        /\ (Covering(now) = {} => last.val = PyStr(STATE_NORMAL))
        /\ \A e \in Covering(now) :
              /\ (e.event_type = DEFINITE => last.val = PyStr(STATE_PLANNED_OUTAGE))
              /\ (e.event_type = EMERGENCY => last.val = PyStr(STATE_EMERGENCY))
              /\ (e.event_type \notin {DEFINITE, EMERGENCY} =>
                     last.val = PyStr(STATE_NORMAL))

\* current_state has been read inside an emergency event
C10_Witness ==
    /\ HasRead("current_state")
    /\ \E e \in Covering(now) : e.event_type = EMERGENCY
    /\ last.val = PyStr(STATE_EMERGENCY)

-----------------------------------------------------------------------------
(* C11 *)

\* C11: next_connectivity is the end of the current event whenever now lies
\* inside an outage event, planned or emergency; otherwise it is the end of the
\* next planned outage within the 24h horizon, None when there is none.
C11_NextConnectivity ==
    HasRead("next_connectivity") =>
        LET outage_now ==
                {e \in Covering(now) : e.event_type \in {DEFINITE, EMERGENCY}}
        IN /\ \A e \in outage_now : last.val = PyTime(e.end)
           /\ (outage_now = {} =>
                  last.val = IF Upcoming(DEFINITE) = {} THEN None
                             ELSE PyTime(NextOf(DEFINITE).end))

-----------------------------------------------------------------------------
(* C12 *)

\* the day entries of the loaded snapshot dated today
TodaysEntries ==
    IF Loaded THEN {d \in api_data.days : d.date = PyDate(date_of(now))} ELSE {}

\* now lies inside an event whose state is not NORMAL
InOutageNow == \E e \in Covering(now) : e.event_type \in {DEFINITE, EMERGENCY}

-----------------------------------------------------------------------------
(* C13 *)

\* C13: next_outage_type is None iff no group data is loaded; with data loaded
\* it is the kind of the next planned-kind event (start strictly after now,
\* within 24h) when there is one and "NotPlanned" otherwise, so that it is
\* "NotPlanned" exactly when data is loaded and next_planned_outage is None.
C13_NextOutageType ==
    HasRead("next_outage_type") =>
        /\ (last.val = None <=> ~Loaded)
        /\ (Loaded /\ Upcoming(DEFINITE) /= {} =>
               last.val = PyStr(NextOf(DEFINITE).event_type))
        /\ (Loaded /\ Upcoming(DEFINITE) = {} => last.val = PyStr("NotPlanned"))
        /\ (last.val = PyStr("NotPlanned") <=> (Loaded /\ next_planned_outage = None))

\* next_outage_type has been read with a snapshot loaded whose only planned
\* outage starts at the 24h horizon
C13_Witness ==
    /\ HasRead("next_outage_type")
    /\ Loaded
    /\ \E e \in StoreEvents :
          e.event_type = DEFINITE /\ e.start = now + TIMEFRAME_TO_CHECK
    /\ last.val = PyStr("NotPlanned")
    /\ next_planned_outage = None

-----------------------------------------------------------------------------
(* C14 *)

-----------------------------------------------------------------------------
(* C15 *)

\* C15: time_until_connectivity and time_until_outage return None whenever the
\* target instant minus now is zero or negative, and a string they return
\* renders a duration that is positive, never one that is negative or zero.
C15_NoCountdownToThePast ==
    HasRead("countdown_to") =>
        /\ (delta <= 0 => last.val = None)
        /\ (last.val /= None => delta > 0 /\ last.val = format_time_delta(delta))
        /\ last.val \notin {format_time_delta(past) : past \in {p \in DeltaInputs : p <= 0}}

\* the closing lines have run with the target at now
C15_Witness ==
    /\ HasRead("countdown_to")
    /\ delta = 0
    /\ last.val = None

-----------------------------------------------------------------------------
(* C16 *)

\* the events of the store in state k that intersect [now, now + 24h) and
\* start strictly after now
Candidates(k) ==
    {e \in StoreEvents :
        /\ event_to_state(get_calendar_event(e)) = k
        /\ e.start < now + TIMEFRAME_TO_CHECK
        /\ e.end > now
        /\ e.start > now}

\* C16: the search for the next event of kind K at now returns the event of
\* kind K with the smallest start among those that intersect [now, now + 24h)
\* and start strictly after now, skipping earlier events of other kinds; it
\* returns None iff there is no such event, and never an event that starts at
\* or beyond now + 24h.
C16_NextEventSelection ==
    \A k \in ConnectivityStates :
        LET found == get_next_event_of_type(k)
        IN /\ (found = None <=> Candidates(k) = {})
           /\ (Candidates(k) /= {} =>
                  \E e \in Candidates(k) :
                      /\ found = get_calendar_event(e)
                      /\ \A f \in Candidates(k) : e.start <= f.start)
           /\ (found /= None =>
                  found.start > now /\ found.start < now + TIMEFRAME_TO_CHECK)

\* next_outage_type has been read where the search for the next planned
\* outage passes over an emergency event that starts earlier
C16_Witness ==
    /\ HasRead("next_outage_type")
    /\ \E e, f \in StoreEvents :
          /\ e.event_type = EMERGENCY /\ f.event_type = DEFINITE
          /\ now < e.start /\ e.start < f.start
          /\ get_next_event_of_type(STATE_PLANNED_OUTAGE) = get_calendar_event(f)
          /\ get_next_event_of_type(STATE_EMERGENCY) = get_calendar_event(e)

-----------------------------------------------------------------------------
(* C17 *)

\* both ids are resolved
Resolved == region_id /= None /\ provider_id /= None

\* C17: the API client, and with it the loaded snapshot, is constructed anew
\* and the region and provider ids are resolved only by a refresh that began
\* while region_id or provider_id was unresolved; once both are resolved,
\* every later refresh leaves region_id, provider_id, the cached provider name
\* and the API client as they are and only fetches the schedule again.
C17_ResolveOnlyWhileUnresolved ==
    [][/\ (api_client' /= api_client \/ region_id' /= region_id
              \/ provider_id' /= provider_id) =>
              /\ pc /= "idle" /\ ~resolved_at_start
              /\ api_client' /= api_client
              /\ api_data' = None
       /\ Resolved =>
              UNCHANGED <<region_id, provider_id, cached_provider_name, api_client>>
       /\ (pc /= "idle" /\ resolved_at_start) =>
              /\ UNCHANGED <<region_id, provider_id, cached_provider_name, api_client>>
              /\ (api_data' /= api_data => pc = "fetch" /\ pc' = "idle")]_vars

\* a refresh that began with both ids resolved, after two constructions of the
\* client, awaits fetch_data with the snapshot of the refresh before it loaded
C17_Witness ==
    /\ pc = "fetch"
    /\ resolved_at_start
    /\ Resolved
    /\ api_client = 0
    /\ cached_provider_name = provider
    /\ Loaded

====
